---- MODULE Spec2Model ----
(***************************************************************************)
(* A model of the DeHashed client (dehashed_api.py, dehashed_cli.py).      *)
(*                                                                         *)
(* Two specifications share the variables below:                           *)
(*   SpecCsv  one flattening pass of save_results_to_csv over an input     *)
(*            drawn from ResultsPool;                                      *)
(*   Spec     a constructed DeHashedClient issuing catalog operations      *)
(*            through _make_request against a nondeterministic server.     *)
(*                                                                         *)
(* Text is modelled as a sequence of tokens, so that concatenation,        *)
(* formatting (f-strings) and str.join are \o on sequences and "exactly    *)
(* this text" is an equality the check can refute.                         *)
(***************************************************************************)
EXTENDS Integers, Sequences, FiniteSets, TLC

VARIABLES
    results,    \* save_results_to_csv: the `results` argument
    file,       \* the target file of save_results_to_csv
    stdout,     \* lines printed by save_results_to_csv
    csvpc,      \* "ready" before the call, "returned" after it
    request,    \* the POST in flight (operation, arguments, endpoint, json body)
    response,   \* what session.post gave for that POST: a response or an exception
    outcome,    \* what _make_request gave for it: a return or a raise
    result,     \* what the operation gave its caller
    calls,      \* number of session.post calls made so far
    client,     \* the DeHashedClient: its api_key and its session
    cli         \* the command-line run: its arguments, position, exit and output

vars == <<results, file, stdout, csvpc, request, response, outcome, result, calls,
          client, cli>>

(***************************************************************************)
(* Bounds of the model.                                                    *)
(***************************************************************************)
MaxEntries == 2     \* longest entry list passed to save_results_to_csv
MaxCalls == 3       \* operations invoked on one client

(***************************************************************************)
(* Text.                                                                   *)
(***************************************************************************)
Str(s) == <<s>>

EmptyStr == <<>>

\* sep.join(parts): the parts in order, sep between neighbours only.
RECURSIVE Join(_, _)
Join(sep, parts) ==
    IF parts = <<>> THEN <<>>
    ELSE IF Len(parts) = 1 THEN parts[1]
    ELSE parts[1] \o sep \o Join(sep, Tail(parts))

(***************************************************************************)
(* Field names of entries, with the code points Python's sorted() compares.*)
(***************************************************************************)
CodePoints(name) ==
    CASE name = "id" -> <<105, 100>>
      [] name = "database_name" ->
            <<100, 97, 116, 97, 98, 97, 115, 101, 95, 110, 97, 109, 101>>
      [] name = "raw_record" -> <<114, 97, 119, 95, 114, 101, 99, 111, 114, 100>>
      [] name = "x" -> <<120>>
      [] name = "y" -> <<121>>

\* str.__lt__: lexicographic order on code points, a proper prefix first.
StrLess(a, b) ==
    LET ca == CodePoints(a)
        cb == CodePoints(b)
    IN \E i \in 1..(Len(cb)) :
          /\ \A j \in 1..(i - 1) : j <= Len(ca) /\ ca[j] = cb[j]
          /\ \/ i = Len(ca) + 1
             \/ i <= Len(ca) /\ ca[i] < cb[i]

\* sorted(names): ascending by StrLess.
RECURSIVE sorted(_)
sorted(names) ==
    IF names = {} THEN <<>>
    ELSE LET least == CHOOSE n \in names : \A m \in names \ {n} : StrLess(n, m)
         IN <<least>> \o sorted(names \ {least})

Range(seq) == {seq[i] : i \in 1..Len(seq)}

(***************************************************************************)
(* JSON values of an entry: a scalar, a list of scalars, a nested mapping  *)
(* (a sequence of <<key, value>> pairs, in insertion order) or null.       *)
(***************************************************************************)
Scalar(s) == [t |-> "str", v |-> <<s>>]

List(items) == [t |-> "list", v |-> items]

Dict(pairs) == [t |-> "dict", v |-> pairs]

Null == [t |-> "none", v |-> <<>>]

\* json.dumps of a mapping of strings: {"k": "v", ...}
json_dumps(pairs) ==
    Str("{")
    \o Join(Str(", "),
            [i \in 1..Len(pairs) |->
                <<"\"", pairs[i][1], "\"", ": ", "\"", pairs[i][2], "\"">>])
    \o Str("}")

(***************************************************************************)
(* Inputs of save_results_to_csv.  ShapeEntries has every set of fields    *)
(* once, with scalar values; ValueEntries has the other kinds of value.    *)
(***************************************************************************)
ScalarOf(name) ==
    CASE name = "id" -> Scalar("1")
      [] name = "database_name" -> Scalar("db")
      [] name = "raw_record" -> Scalar("raw")
      [] name = "x" -> Scalar("a")
      [] name = "y" -> Scalar("b")

EntryFields == {"id", "database_name", "raw_record", "x", "y"}

ShapeEntries == {[k \in D |-> ScalarOf(k)] : D \in SUBSET EntryFields}

ValueEntries ==
    { [id |-> Scalar("2"), y |-> Scalar("b")],
      [x |-> List(<<"a", "b", "c">>)],
      [id |-> Scalar("2"), x |-> List(<<"a">>)],
      [y |-> List(<<>>)],
      [id |-> Scalar("2"), x |-> List(<<"a", "b", "c">>), y |-> List(<<"b", "a">>)],
      [x |-> Dict(<<<<"k", "v">>>>), raw_record |-> Null],
      [database_name |-> Scalar("db2"), y |-> Dict(<<>>)] }

EntryPool == ShapeEntries \cup ValueEntries

EntryLists == UNION {[1..n -> EntryPool] : n \in 0..MaxEntries}

ResultsPool ==
    {[entries |-> es] : es \in EntryLists}
    \cup {[entries |-> es, balance |-> 5] : es \in {<<>>, <<[id |-> Scalar("1")]>>}}
    \cup {[balance |-> 5], [message |-> Str("ok")]}

Filename == "results.csv"

NoFile == [exists |-> FALSE, rows |-> <<>>]

OldFile == [exists |-> TRUE, rows |-> << <<Str("old")>> >>]

(***************************************************************************)
(* save_results_to_csv                                                     *)
(***************************************************************************)
priority_fields == <<"id", "database_name">>

\* fieldnames: the union of the keys of all entries
fieldnames(entries) == UNION {DOMAIN entries[i] : i \in 1..Len(entries)}

sorted_fields(entries) ==
    LET names == fieldnames(entries)
    IN priority_fields
       \o sorted({f \in names : f \notin Range(priority_fields) /\ f # "raw_record"})
       \o (IF "raw_record" \in names THEN <<"raw_record">> ELSE <<>>)

\* mutant: the separator without its space
FlattenValue_comma(value) ==
    CASE value.t = "list" ->
            Join(Str(";"), [i \in 1..Len(value.v) |-> Str(value.v[i])])
      [] value.t = "dict" -> json_dumps(value.v)
      [] OTHER -> value.v

\* the value stored under one key of `flattened`
FlattenValue(value) ==
    CASE value.t = "list" ->
            Join(Str("; "), [i \in 1..Len(value.v) |-> Str(value.v[i])])
      [] value.t = "dict" -> json_dumps(value.v)
      [] OTHER -> value.v

flattened(entry, fields) ==
    [key \in Range(fields) |->
        IF key \in DOMAIN entry THEN FlattenValue(entry[key]) ELSE EmptyStr]

\* mutant: the values of rowdict in the order of its own sorted keys
writerow_keyorder(fields, rowdict) ==
    LET keys == sorted(DOMAIN rowdict)
    IN [i \in 1..Len(keys) |-> rowdict[keys[i]]]

\* csv.DictWriter.writerow: the values of rowdict in the order of fieldnames
writerow(fields, rowdict) ==
    [i \in 1..Len(fields) |->
        IF fields[i] \in DOMAIN rowdict THEN rowdict[fields[i]] ELSE EmptyStr]

\* csv.DictWriter.writeheader: the field names themselves
writeheader(fields) == [i \in 1..Len(fields) |-> Str(fields[i])]

\* the rows written: the header, then one row per entry in input order
CsvRows(entries) ==
    LET fields == sorted_fields(entries)
    IN <<writeheader(fields)>>
       \o [i \in 1..Len(entries) |-> writerow(fields, flattened(entries[i], fields))]

\* mutant: only the missing key is caught, an empty list goes on to the writer
NoEntries_keyonly(res) == "entries" \notin DOMAIN res

\* line 611: 'entries' not in results or not results['entries']
NoEntries(res) == "entries" \notin DOMAIN res \/ res.entries = <<>>

save_results_to_csv ==
    /\ csvpc = "ready"
    /\ csvpc' = "returned"
    /\ IF NoEntries(results)
       THEN /\ stdout' = stdout \o <<Str("No entries found in results to export to CSV")>>
            /\ file' = file
       ELSE /\ file' = [exists |-> TRUE, rows |-> CsvRows(results.entries)]
            /\ stdout' = stdout
                 \o << <<"Results saved to ", Filename>>,
                       <<"Total entries exported: ", ToString(Len(results.entries))>> >>
    /\ UNCHANGED <<results, request, response, outcome, result, calls, client, cli>>

InitCsv ==
    /\ results \in ResultsPool
    /\ file \in {NoFile, OldFile}
    /\ stdout = <<>>
    /\ csvpc = "ready"
    /\ request = [op |-> "none"]
    /\ response = [kind |-> "none"]
    /\ outcome = [kind |-> "none"]
    /\ result = [kind |-> "none"]
    /\ calls = 0
    /\ client = [session |-> "none"]
    /\ cli = [pc |-> "unused"]

NextCsv == save_results_to_csv

SpecCsv == InitCsv /\ [][NextCsv]_vars

(***************************************************************************)
(* Claims about save_results_to_csv (checked under SpecCsv).               *)
(***************************************************************************)
Wrote == csvpc = "returned" /\ "entries" \in DOMAIN results /\ Len(results.entries) > 0

HeaderNames == [c \in 1..Len(file.rows[1]) |-> file.rows[1][c][1]]

\* 0: id, 1: database_name, 2: every other field, 3: raw_record
ColumnClass(name) ==
    CASE name = "id" -> 0
      [] name = "database_name" -> 1
      [] name = "raw_record" -> 3
      [] OTHER -> 2

ColumnBefore(a, b) ==
    \/ ColumnClass(a) < ColumnClass(b)
    \/ ColumnClass(a) = 2 /\ ColumnClass(b) = 2 /\ StrLess(a, b)

\* C1: for a non-empty entry list the header is exactly the union of the keys
\* of the entries (each once), ordered id, database_name, the other keys
\* lexicographically, raw_record last, each only if some entry has it.
C1_HeaderIsUnionOfKeys ==
    Wrote =>
        /\ Range(HeaderNames) = fieldnames(results.entries)
        /\ Len(HeaderNames) = Cardinality(fieldnames(results.entries))
        /\ \A i, j \in 1..Len(HeaderNames) :
              i < j => ColumnBefore(HeaderNames[i], HeaderNames[j])

\* C2: the file is the header followed by one row per entry in input order;
\* every row has one cell per header column, in the header's order, holding
\* the entry's flattened value for that column or the empty string if the
\* entry lacks it.
C2_RowsUniform ==
    Wrote =>
        /\ file.exists
        /\ Len(file.rows) = 1 + Len(results.entries)
        /\ \A i \in 1..Len(results.entries) :
              /\ Len(file.rows[i + 1]) = Len(HeaderNames)
              /\ \A c \in 1..Len(HeaderNames) :
                    file.rows[i + 1][c] =
                        IF HeaderNames[c] \in DOMAIN results.entries[i]
                        THEN FlattenValue(results.entries[i][HeaderNames[c]])
                        ELSE EmptyStr

\* a ragged two-entry input has been written as three rows of equal width
C2_Witness ==
    /\ Wrote
    /\ Len(results.entries) = 2
    /\ DOMAIN results.entries[1] = {"id", "x"}
    /\ DOMAIN results.entries[2] = {"id", "y"}
    /\ Len(file.rows) = 3
    /\ file.rows[2][4] = EmptyStr
    /\ file.rows[3][3] = EmptyStr

\* the cell written for entry i under field k
Cell(i, k) ==
    LET c == CHOOSE c \in 1..Len(HeaderNames) : HeaderNames[c] = k
    IN file.rows[i + 1][c]

\* C3: a list-valued field is written as its elements in list order with the
\* token "; " between neighbours and nowhere else.
C3_ListJoined ==
    Wrote =>
        \A i \in 1..Len(results.entries) :
            \A k \in DOMAIN results.entries[i] :
                LET value == results.entries[i][k]
                    n == Len(value.v)
                IN value.t = "list" =>
                    /\ k \in Range(HeaderNames)
                    /\ Len(Cell(i, k)) = (IF n = 0 THEN 0 ELSE 2 * n - 1)
                    /\ \A j \in 1..n : Cell(i, k)[2 * j - 1] = value.v[j]
                    /\ \A j \in 1..(n - 1) : Cell(i, k)[2 * j] = "; "

\* [a, b, c] has been written as "a; b; c" and a one-element list as its element
C3_Witness ==
    /\ Wrote
    /\ Len(results.entries) = 2
    /\ results.entries[1] = [x |-> List(<<"a", "b", "c">>)]
    /\ results.entries[2] = [id |-> Scalar("2"), x |-> List(<<"a">>)]
    /\ Cell(1, "x") = <<"a", "; ", "b", "; ", "c">>
    /\ Cell(2, "x") = <<"a">>

\* C4: with no `entries` key or an empty entry list the call returns having
\* left the file as it was (not created, not overwritten) and having printed
\* only the notice that nothing was exported.
C4_NoEntriesNoOp ==
    [][(csvpc = "ready"
        /\ ("entries" \notin DOMAIN results \/ Len(results.entries) = 0))
       => /\ csvpc' = "returned"
          /\ file' = file
          /\ stdout' = <<Str("No entries found in results to export to CSV")>>]_vars

\* an empty entry list has been passed while the target file existed
C4_Witness ==
    /\ csvpc = "returned"
    /\ "entries" \in DOMAIN results
    /\ results.entries = <<>>
    /\ file = OldFile
    /\ Len(stdout) = 1

(***************************************************************************)
(* DeHashedClient: argument and payload values.                            *)
(***************************************************************************)
Num(n) == [t |-> "int", v |-> n]

Bool(b) == [t |-> "bool", v |-> b]

None == Null

\* the caller did not pass the parameter: Python binds its default
Omitted == [t |-> "omitted", v |-> <<>>]

Bind(arg, default) == IF arg.t = "omitted" THEN default ELSE arg

\* Python truth value of `if x:`
Truthy(value) ==
    CASE value.t = "none" -> FALSE
      [] value.t = "bool" -> value.v
      [] value.t = "int" -> value.v # 0
      [] OTHER -> value.v # <<>>

EmptyDict == [k \in {} |-> None]

\* {key: value} if the guard holds, {} otherwise
Only(guard, key, value) == IF guard THEN key :> value ELSE EmptyDict

\* str(value) inside an f-string
PyStr(value) ==
    CASE value.t = "int" -> <<ToString(value.v)>>
      [] value.t = "none" -> <<"None">>
      [] value.t = "bool" -> <<IF value.v THEN "True" ELSE "False">>
      [] OTHER -> value.v

(***************************************************************************)
(* DeHashedConfig                                                          *)
(***************************************************************************)
base_url == "https://api.dehashed.com/v2"

timeout == 30

(***************************************************************************)
(* What session.post can give.  A response has a status line and a body;   *)
(* the body is a JSON object, a JSON array or text that is not JSON.       *)
(***************************************************************************)
Status(code, reason) == [code |-> code, text |-> ToString(code), reason |-> reason]

Statuses ==
    { Status(101, "Switching Protocols"),
      Status(200, "OK"),
      Status(201, "Created"),
      Status(304, "Not Modified"),
      Status(404, "Not Found"),
      Status(500, "Internal Server Error") }

ObjectBody(fields) == [kind |-> "object", fields |-> fields, items |-> <<>>, raw |-> <<>>]

ArrayBody(items) == [kind |-> "array", fields |-> EmptyDict, items |-> items, raw |-> <<>>]

TextBody(raw) == [kind |-> "text", fields |-> EmptyDict, items |-> <<>>, raw |-> raw]

Bodies ==
    { ObjectBody([message |-> Scalar("invalid query")]),
      ObjectBody([error |-> Scalar("unauthorized")]),
      ObjectBody([message |-> Scalar("invalid query"), error |-> Scalar("unauthorized")]),
      ObjectBody([entries |-> List(<<>>), balance |-> Num(5)]),
      ArrayBody(<<"message">>),
      TextBody(<<"<html>", "Bad Gateway", "</html>">>) }

Responses == {[kind |-> "response", status |-> st, body |-> b] : st \in Statuses, b \in Bodies}

\* session.post raised: no response was received
NoResponses ==
    { [kind |-> "exception", exc |-> "ConnectTimeout",
       text |-> <<"HTTPSConnectionPool(host='api.dehashed.com', port=443): ",
                  "Max retries exceeded (connect timeout=", ToString(timeout), ")">>],
      [kind |-> "exception", exc |-> "ReadTimeout",
       text |-> <<"HTTPSConnectionPool(host='api.dehashed.com', port=443): ",
                  "Read timed out. (read timeout=", ToString(timeout), ")">>],
      [kind |-> "exception", exc |-> "ConnectionError",
       text |-> <<"HTTPSConnectionPool(host='api.dehashed.com', port=443): ",
                  "Name or service not known">>] }

\* the client is used sequentially: no call is in progress
Idle == request.op = "none"

(***************************************************************************)
(* _make_request, first half: url, json body, session.post (lines 74-81).  *)
(***************************************************************************)
\* the POST itself, sent on the session of `owner` with its Dehashed-Api-Key header
post(owner, op, args, endpoint, data) ==
    /\ calls < MaxCalls
    /\ request' = [op |-> op, args |-> args,
                   url |-> <<base_url, endpoint>>,
                   json |-> IF DOMAIN data # {} THEN data ELSE EmptyDict,
                   api_key |-> owner.api_key]
    /\ calls' = calls + 1
    /\ response' = [kind |-> "none"]
    /\ outcome' = [kind |-> "pending"]
    /\ result' = [kind |-> "pending"]

make_request(op, args, endpoint, data) ==
    /\ post(client, op, args, endpoint, data)
    /\ UNCHANGED <<results, file, stdout, csvpc, client, cli>>

(***************************************************************************)
(* The operations of the client.  Each builds `data` from its bound        *)
(* parameters and hands it to _make_request.  `args` keeps what the caller *)
(* passed (Omitted for a parameter left to its default).                   *)
(***************************************************************************)
OptInt(n) == {Omitted, Num(n)}

OptFlag == {Omitted, Bool(TRUE), Bool(FALSE)}

\* Optional[str] = None
OptStr(s) == {Omitted, None, Scalar(s), [t |-> "str", v |-> <<>>]}

\* Optional[List[str]] = None
OptList(items) == {Omitted, None, List(<<>>), List(items)}

search_data(args) ==
    [query |-> args.query,
     page |-> Bind(args.page, Num(1)),
     size |-> Bind(args.size, Num(10000)),
     wildcard |-> Bind(args.wildcard, Bool(FALSE)),
     regex |-> Bind(args.regex, Bool(FALSE)),
     de_dupe |-> Bind(args.de_dupe, Bool(FALSE))]

search ==
    /\ Idle
    /\ \E page \in OptInt(2), size \in OptInt(1),
          wildcard \in OptFlag, regex \in OptFlag, de_dupe \in OptFlag :
           LET args == [query |-> Scalar("email:user@example.com"), page |-> page,
                        size |-> size, wildcard |-> wildcard, regex |-> regex,
                        de_dupe |-> de_dupe]
           IN make_request("search", args, "/search", search_data(args))

search_password ==
    /\ Idle
    /\ LET args == [password_hash |-> Scalar("5f4dcc3b5aa765d61d8327deb882cf99")]
       IN make_request("search_password", args, "/search-password",
                       [hash |-> args.password_hash])

\* mutant: channels is sent whatever it is
monitoring_create_task_data_always(args) ==
    [type |-> args.task_type, value |-> args.value,
     channels |-> Bind(args.channels, None)]

monitoring_create_task_data(args) ==
    [type |-> args.task_type, value |-> args.value]
    @@ Only(Truthy(Bind(args.channels, None)), "channels", Bind(args.channels, None))

monitoring_create_task ==
    /\ Idle
    /\ \E channels \in OptList(<<"email", "webhook">>) :
           LET args == [task_type |-> Scalar("email"),
                        value |-> Scalar("monitor@example.com"),
                        channels |-> channels]
           IN make_request("monitoring_create_task", args, "/monitoring/create-task",
                           monitoring_create_task_data(args))

monitoring_update_task_data(args) ==
    [id |-> args.task_id, type |-> args.task_type, value |-> args.value]
    @@ Only(Truthy(Bind(args.channels, None)), "channels", Bind(args.channels, None))

monitoring_update_task ==
    /\ Idle
    /\ \E channels \in OptList(<<"email">>) :
           LET args == [task_id |-> Scalar("task-id-123"),
                        task_type |-> Scalar("email"),
                        value |-> Scalar("newemail@example.com"),
                        channels |-> channels]
           IN make_request("monitoring_update_task", args, "/monitoring/update-task",
                           monitoring_update_task_data(args))

monitoring_update_task_status ==
    /\ Idle
    /\ \E active \in {Bool(TRUE), Bool(FALSE)} :
           LET args == [task_id |-> Scalar("task-id-123"), active |-> active]
           IN make_request("monitoring_update_task_status", args, "/monitoring/update-task",
                           [id |-> args.task_id, active |-> args.active])

monitoring_delete_task ==
    /\ Idle
    /\ LET args == [task_id |-> Scalar("task-id-123")]
       IN make_request("monitoring_delete_task", args, "/monitoring/delete-task",
                       [id |-> args.task_id])

monitoring_get_tasks ==
    /\ Idle
    /\ \E page \in OptInt(2) :
           LET args == [page |-> page]
           IN make_request("monitoring_get_tasks", args, "/monitoring/get-tasks",
                           [page |-> Bind(args.page, Num(1))])

monitoring_get_task ==
    /\ Idle
    /\ LET args == [task_id |-> Scalar("task-id-123")]
       IN make_request("monitoring_get_task", args, "/monitoring/get-task",
                       [id |-> args.task_id])

monitoring_get_reports ==
    /\ Idle
    /\ \E page \in OptInt(2) :
           LET args == [page |-> page]
           IN make_request("monitoring_get_reports", args, "/monitoring/get-reports",
                           [page |-> Bind(args.page, Num(1))])

monitoring_get_report ==
    /\ Idle
    /\ LET args == [report_id |-> Scalar("report-id-123")]
       IN make_request("monitoring_get_report", args, "/monitoring/get-report",
                       [id |-> args.report_id])

monitoring_get_channels ==
    /\ Idle
    /\ make_request("monitoring_get_channels", EmptyDict, "/monitoring/get-channels",
                    EmptyDict)

monitoring_update_channel ==
    /\ Idle
    /\ \E channel_type \in {Scalar("webhook"), Scalar("email")} :
           LET args == [channel_type |-> channel_type,
                        value |-> Scalar("notifications@example.com")]
           IN make_request("monitoring_update_channel", args, "/monitoring/update-channel",
                           [type |-> args.channel_type, value |-> args.value])

monitoring_delete_channel ==
    /\ Idle
    /\ \E channel_type \in {Scalar("webhook"), Scalar("email")} :
           LET args == [channel_type |-> channel_type]
           IN make_request("monitoring_delete_channel", args, "/monitoring/delete-channel",
                           [channel |-> args.channel_type])

whois_search ==
    /\ Idle
    /\ LET args == [domain |-> Scalar("example.com")]
       IN make_request("whois_search", args, "/whois/search",
                       [search_type |-> Scalar("whois"), domain |-> args.domain])

whois_history ==
    /\ Idle
    /\ LET args == [domain |-> Scalar("example.com")]
       IN make_request("whois_history", args, "/whois/search",
                       [search_type |-> Scalar("whois-history"), domain |-> args.domain])

\* mutant: every parameter is sent, given or not
whois_reverse_data_all(args) ==
    [search_type |-> Scalar("reverse-whois"),
     name |-> Bind(args.name, None),
     organization |-> Bind(args.organization, None),
     email |-> Bind(args.email, None),
     include |-> Bind(args.include, None),
     exclude |-> Bind(args.exclude, None)]

whois_reverse_data(args) ==
    LET name == Bind(args.name, None)
        organization == Bind(args.organization, None)
        email == Bind(args.email, None)
        include == Bind(args.include, None)
        exclude == Bind(args.exclude, None)
    IN [search_type |-> Scalar("reverse-whois")]
       @@ Only(Truthy(name), "name", name)
       @@ Only(Truthy(organization), "organization", organization)
       @@ Only(Truthy(email), "email", email)
       @@ Only(Truthy(include), "include", include)
       @@ Only(Truthy(exclude), "exclude", exclude)

whois_reverse ==
    /\ Idle
    /\ \E name \in OptStr("John Doe"), organization \in OptStr("Example Corp"),
          email \in OptStr("admin@example.com"),
          include \in OptList(<<"example", "test">>), exclude \in OptList(<<"spam">>) :
           LET args == [name |-> name, organization |-> organization, email |-> email,
                        include |-> include, exclude |-> exclude]
           IN make_request("whois_reverse", args, "/whois/search", whois_reverse_data(args))

whois_ip ==
    /\ Idle
    /\ LET args == [ip_address |-> Scalar("8.8.8.8")]
       IN make_request("whois_ip", args, "/whois/search",
                       [search_type |-> Scalar("reverse-ip"), domain |-> args.ip_address])

whois_mx ==
    /\ Idle
    /\ LET args == [mx_server |-> Scalar("mail.example.com")]
       IN make_request("whois_mx", args, "/whois/search",
                       [search_type |-> Scalar("reverse-mx"), domain |-> args.mx_server])

whois_ns ==
    /\ Idle
    /\ LET args == [ns_server |-> Scalar("ns1.example.com")]
       IN make_request("whois_ns", args, "/whois/search",
                       [search_type |-> Scalar("reverse-ns"), domain |-> args.ns_server])

whois_subdomain_scan ==
    /\ Idle
    /\ LET args == [domain |-> Scalar("example.com")]
       IN make_request("whois_subdomain_scan", args, "/whois/search",
                       [search_type |-> Scalar("subdomain-scan"), domain |-> args.domain])

\* get_balance, line 555: self.search("email:test@test.com", size=1)
get_balance ==
    /\ Idle
    /\ LET probe == [query |-> Scalar("email:test@test.com"), page |-> Omitted,
                     size |-> Num(1), wildcard |-> Omitted, regex |-> Omitted,
                     de_dupe |-> Omitted]
       IN make_request("get_balance", EmptyDict, "/search", search_data(probe))

(***************************************************************************)
(* _make_request, second half: what becomes of the answer (lines 82-97).   *)
(***************************************************************************)
Returned(value) == [kind |-> "returned", value |-> value]

\* raise DeHashedAPIError(msg), from the except clause named
Raised(clause, msg) ==
    [kind |-> "raised", exc |-> "DeHashedAPIError", clause |-> clause, msg |-> msg]

\* response.raise_for_status() raises HTTPError for 4xx and 5xx only
raise_for_status(status) == 400 <= status.code /\ status.code < 600

\* str(e) of that HTTPError
HTTPErrorText(status, url) ==
    <<status.text,
      IF status.code < 500 THEN " Client Error: " ELSE " Server Error: ",
      status.reason, " for url: ">> \o url

\* str(e) of the JSONDecodeError of response.json(), a RequestException
JSONDecodeErrorText == <<"Expecting value: line 1 column 1 (char 0)">>

\* mutant: `error` is looked at before `message`
error_msg_error_first(status, body, url) ==
    IF body.kind = "object" /\ "error" \in DOMAIN body.fields
    THEN <<"API Error: ">> \o PyStr(body.fields.error)
    ELSE IF body.kind = "object" /\ "message" \in DOMAIN body.fields
    THEN <<"API Error: ">> \o PyStr(body.fields.message)
    ELSE <<"API request failed: ">> \o HTTPErrorText(status, url)

\* lines 86-94: the message of the error raised for an HTTPError.  A body
\* that is not JSON, or JSON that is not an object (indexing it by 'message'
\* raises inside the bare try/except), leaves the first message in place.
error_msg(status, body, url) ==
    IF body.kind = "object" /\ "message" \in DOMAIN body.fields
    THEN <<"API Error: ">> \o PyStr(body.fields.message)
    ELSE IF body.kind = "object" /\ "error" \in DOMAIN body.fields
    THEN <<"API Error: ">> \o PyStr(body.fields.error)
    ELSE <<"API request failed: ">> \o HTTPErrorText(status, url)

\* lines 82-95 and, for a body response.json() cannot parse, 96-97
HandleResponse(r, url) ==
    IF raise_for_status(r.status)
    THEN Raised("except HTTPError", error_msg(r.status, r.body, url))
    ELSE IF r.body.kind = "text"
    THEN Raised("except RequestException",
                <<"API request failed: ">> \o JSONDecodeErrorText)
    ELSE Returned(r.body)

\* mutant: a failure without a response is reported like a rejection by the service
HandleNoResponse_as_rejection(e) == Raised("except HTTPError", <<"API Error: ">> \o e.text)

\* lines 96-97
HandleNoResponse(e) ==
    Raised("except RequestException", <<"API request failed: ">> \o e.text)

\* mutant: the probe's failure reaches the caller of get_balance
get_balance_result_raising(made) ==
    IF made.kind = "raised" THEN made
    ELSE IF made.value.kind = "object" /\ "balance" \in DOMAIN made.value.fields
    THEN Returned(made.value.fields.balance)
    ELSE Returned(None)

\* get_balance, lines 554-558: response.get("balance"), and None for any
\* exception (a raise of _make_request, or a JSON array, which has no .get)
get_balance_result(made) ==
    IF made.kind = "raised" THEN Returned(None)
    ELSE IF made.value.kind = "object" /\ "balance" \in DOMAIN made.value.fields
    THEN Returned(made.value.fields.balance)
    ELSE Returned(None)

\* what the operation gives its caller, given what _make_request gave it:
\* every operation but get_balance is `return self._make_request(...)`
Deliver(op, made) == IF op = "get_balance" THEN get_balance_result(made) ELSE made

\* session.post returned a response
make_request_response ==
    /\ request.op # "none"
    /\ \E r \in Responses :
          /\ response' = [kind |-> "response", status |-> r.status, body |-> r.body,
                          url |-> request.url]
          /\ outcome' = HandleResponse(r, request.url)
    /\ result' = Deliver(request.op, outcome')
    /\ request' = [op |-> "none"]
    /\ UNCHANGED <<calls, results, file, stdout, csvpc, client, cli>>

\* mutant: a failed attempt is sent again
make_request_no_response_retry ==
    /\ request.op # "none"
    /\ calls < MaxCalls
    /\ calls' = calls + 1
    /\ UNCHANGED <<request, response, outcome, result, results, file, stdout, csvpc,
                   client, cli>>

\* session.post raised: connection failure, timeout, DNS failure
make_request_no_response ==
    /\ request.op # "none"
    /\ \E e \in NoResponses :
          /\ response' = [kind |-> "exception", exc |-> e.exc, text |-> e.text,
                          url |-> request.url]
          /\ outcome' = HandleNoResponse(e)
    /\ result' = Deliver(request.op, outcome')
    /\ request' = [op |-> "none"]
    /\ UNCHANGED <<calls, results, file, stdout, csvpc, client, cli>>

(***************************************************************************)
(* A constructed client and the operations invoked on it, one at a time.   *)
(***************************************************************************)
Init ==
    /\ request = [op |-> "none"]
    /\ response = [kind |-> "none"]
    /\ outcome = [kind |-> "none"]
    /\ result = [kind |-> "none"]
    /\ calls = 0
    /\ client = [session |-> "open", api_key |-> <<"key">>]
    /\ cli = [pc |-> "unused"]
    /\ results = [entries |-> <<>>]
    /\ file = NoFile
    /\ stdout = <<>>
    /\ csvpc = "unused"

Next ==
    \/ search
    \/ search_password
    \/ monitoring_create_task
    \/ monitoring_update_task
    \/ monitoring_update_task_status
    \/ monitoring_delete_task
    \/ monitoring_get_tasks
    \/ monitoring_get_task
    \/ monitoring_get_reports
    \/ monitoring_get_report
    \/ monitoring_get_channels
    \/ monitoring_update_channel
    \/ monitoring_delete_channel
    \/ whois_search
    \/ whois_history
    \/ whois_reverse
    \/ whois_ip
    \/ whois_mx
    \/ whois_ns
    \/ whois_subdomain_scan
    \/ get_balance
    \/ make_request_response
    \/ make_request_no_response

Spec == Init /\ [][Next]_vars

(***************************************************************************)
(* Claims about _make_request and the operations (checked under Spec).     *)
(***************************************************************************)
Answered == Idle /\ response.kind = "response"

Is2xx(status) == 200 <= status.code /\ status.code <= 299

\* C5 as stated, on the statuses _make_request rejects (4xx, 5xx): the
\* error's message is exactly the body's `message` field, else exactly its
\* `error` field, else the status text.
C5_MessageIsExactlyTheField ==
    (Answered /\ response.status.code \in 400..599) =>
        /\ outcome.kind = "raised"
        /\ outcome.msg =
            IF response.body.kind = "object" /\ "message" \in DOMAIN response.body.fields
             THEN response.body.fields.message.v
             ELSE IF response.body.kind = "object" /\ "error" \in DOMAIN response.body.fields
             THEN response.body.fields.error.v
             ELSE HTTPErrorText(response.status, response.url)

\* C5 amended: for a 4xx or 5xx response the error's message is "API Error: "
\* followed by the `message` field of a JSON object body, else "API Error: "
\* followed by its `error` field, else "API request failed: " followed by the
\* status text; `message` wins over `error`.
C5_MessagePrefixed ==
    (Answered /\ response.status.code \in 400..599) =>
        /\ outcome.kind = "raised"
        /\ outcome.msg =
            IF response.body.kind = "object" /\ "message" \in DOMAIN response.body.fields
            THEN <<"API Error: ">> \o response.body.fields.message.v
            ELSE IF response.body.kind = "object" /\ "error" \in DOMAIN response.body.fields
            THEN <<"API Error: ">> \o response.body.fields.error.v
            ELSE <<"API request failed: ", response.status.text,
                   IF response.status.code < 500 THEN " Client Error: "
                                                 ELSE " Server Error: ",
                   response.status.reason, " for url: ">> \o response.url

\* a 404 whose body has both fields has surfaced the `message` one
C5_Witness ==
    /\ Answered
    /\ response.status.code = 404
    /\ response.body.kind = "object"
    /\ DOMAIN response.body.fields = {"message", "error"}
    /\ outcome.kind = "raised"
    /\ outcome.msg = <<"API Error: ", "invalid query">>

\* C6: every response outside 2xx ends in an error raised for the HTTP status
\* that still carries the status code; none is returned as a result.
C6_NonSuccessIsHttpError ==
    (Answered /\ ~Is2xx(response.status)) =>
        /\ outcome.kind = "raised"
        /\ outcome.clause = "except HTTPError"
        /\ response.status.text \in Range(outcome.msg)

\* C7: a 2xx response whose body is not JSON ends in the client's error, and
\* that error carries an excerpt of the raw body.
C7_MalformedCarriesBody ==
    (Answered /\ Is2xx(response.status) /\ response.body.kind = "text") =>
        /\ outcome.kind = "raised"
        /\ outcome.exc = "DeHashedAPIError"
        /\ \E i \in 1..Len(response.body.raw) : response.body.raw[i] \in Range(outcome.msg)

\* C8: when session.post raises (no response), the error comes from the
\* generic request-failure clause, never from the HTTP-status clause, its
\* message is "API request failed: " followed by the exception's text, and no
\* rejected response to the same request gives that message.
C8_NoResponseIsTransport ==
    (Idle /\ response.kind = "exception") =>
        /\ outcome.kind = "raised"
        /\ outcome.exc = "DeHashedAPIError"
        /\ outcome.clause = "except RequestException"
        /\ outcome.msg = <<"API request failed: ">> \o response.text
        /\ \A r \in Responses :
              raise_for_status(r.status) =>
                  error_msg(r.status, r.body, response.url) # outcome.msg

\* a read timeout has been reported
C8_Witness ==
    /\ Idle
    /\ response.kind = "exception"
    /\ response.exc = "ReadTimeout"
    /\ outcome.kind = "raised"

\* C9: invoking an operation makes exactly one POST, and the step that ends
\* the operation makes none and reports exactly one outcome.
C9_OnePostPerInvocation ==
    [][/\ (Idle /\ ~Idle') => calls' = calls + 1
       /\ ~Idle => /\ Idle'
                   /\ calls' = calls
                   /\ outcome'.kind \in {"returned", "raised"}]_vars

\* a second operation has failed without a response, after two POSTs in all
C9_Witness ==
    /\ Idle
    /\ calls = 2
    /\ response.kind = "exception"
    /\ outcome.kind = "raised"

\* parameters with a default, by operation (from the signatures)
OptionalParams(op) ==
    CASE op = "search" -> {"page", "size", "wildcard", "regex", "de_dupe"}
      [] op \in {"monitoring_get_tasks", "monitoring_get_reports"} -> {"page"}
      [] op \in {"monitoring_create_task", "monitoring_update_task"} -> {"channels"}
      [] op = "whois_reverse" -> {"name", "organization", "email", "include", "exclude"}
      [] OTHER -> {}

\* those whose default is a value to send rather than None
DefaultedParams == {"page", "size", "wildcard", "regex", "de_dupe"}

DefaultOf(param) ==
    CASE param = "page" -> Num(1)
      [] param = "size" -> Num(10000)
      [] OTHER -> Bool(FALSE)

\* omitted, None, the empty string or the empty list
Unsupplied(arg) == arg.t \in {"omitted", "none"} \/ (arg.t \in {"str", "list"} /\ arg.v = <<>>)

NullOrEmpty(value) == value.t = "none" \/ (value.t \in {"str", "list"} /\ value.v = <<>>)

\* C10 as stated: an optional field the caller omits (or passes as None, ""
\* or []) is absent from the payload.
C10_OmittedIsAbsent ==
    ~Idle =>
        \A p \in OptionalParams(request.op) :
            Unsupplied(request.args[p]) => p \notin DOMAIN request.json

\* C10 amended: an optional field whose default is None (channels; name,
\* organization, email, include, exclude) is absent from the payload when
\* omitted or passed as None, "" or [], and is never sent as null, "" or [];
\* an omitted field with a default value (page, size, wildcard, regex,
\* de_dupe) is sent with that default.
C10_OmittedIsAbsentOrDefault ==
    ~Idle =>
        \A p \in OptionalParams(request.op) :
            IF p \in DefaultedParams
            THEN request.args[p] = Omitted
                    => (p \in DOMAIN request.json /\ request.json[p] = DefaultOf(p))
            ELSE /\ Unsupplied(request.args[p]) => p \notin DOMAIN request.json
                 /\ p \in DOMAIN request.json => ~NullOrEmpty(request.json[p])

\* reverse WHOIS with name omitted, include = [] and only email given
C10_Witness ==
    /\ ~Idle
    /\ request.op = "whois_reverse"
    /\ request.args.name = Omitted
    /\ request.args.organization = None
    /\ request.args.include = List(<<>>)
    /\ DOMAIN request.json = {"search_type", "email"}

\* C11: reverse WHOIS with none of name, organization, email, include,
\* exclude supplied (each omitted or None) is posted to /whois/search with a
\* payload whose only key is search_type = "reverse-whois".
C11_ReverseWhoisBarePayload ==
    (/\ ~Idle
     /\ request.op = "whois_reverse"
     /\ \A p \in {"name", "organization", "email", "include", "exclude"} :
           request.args[p] \in {Omitted, None}) =>
        /\ calls >= 1
        /\ request.url = <<base_url, "/whois/search">>
        /\ DOMAIN request.json = {"search_type"}
        /\ request.json.search_type = Scalar("reverse-whois")

\* the call the command line makes for `whois reverse` without options is in flight
C11_Witness ==
    /\ ~Idle
    /\ request.op = "whois_reverse"
    /\ request.args = [name |-> None, organization |-> None, email |-> None,
                       include |-> Omitted, exclude |-> Omitted]
    /\ calls = 1

\* C14: get_balance always returns, and returns None when its probe search
\* raised or gave no JSON object with a balance; every other operation gives
\* its caller exactly what _make_request gave (the return or the raise).
C14_OnlyBalanceSuppresses ==
    [][~Idle =>
        IF request.op = "get_balance"
        THEN /\ result'.kind = "returned"
             /\ (\/ outcome'.kind = "raised"
                 \/ outcome'.value.kind # "object"
                 \/ "balance" \notin DOMAIN outcome'.value.fields)
                   => result'.value = None
        ELSE result' = outcome']_vars

\* a probe that failed has been turned into None
C14_Witness ==
    /\ Idle
    /\ outcome.kind = "raised"
    /\ result = Returned(None)

(***************************************************************************)
(* The command line (dehashed_cli.py).  One run: main parses the arguments *)
(* and calls the command's function, which constructs the client, enters   *)
(* its `with` scope and calls one operation; when the POST is answered the *)
(* command writes or prints the result, the scope is left and main exits.  *)
(***************************************************************************)
Text(tokens) == [t |-> "str", v |-> tokens]

\* --api-key and DEHASHED_API_KEY: absent, empty or a key
Credentials == {None, Text(<<>>), Scalar("key")}

\* mutant: a missing credential becomes the empty key
DeHashedClient_default_empty(api_key, env) ==
    LET key == IF api_key = None THEN env ELSE api_key
    IN [ok |-> TRUE, client |-> [session |-> "open", api_key |-> key.v], msg |-> <<>>]

\* DeHashedClient.__init__, lines 46-58: the client, or the error raised
DeHashedClient(api_key, env) ==
    LET key == IF api_key = None THEN env ELSE api_key
    IN IF key = None
       THEN [ok |-> FALSE, client |-> [session |-> "none"],
             msg |-> <<"API key must be provided or set in DEHASHED_API_KEY environment variable">>]
       ELSE [ok |-> TRUE, client |-> [session |-> "open", api_key |-> key.v], msg |-> <<>>]

\* mutant: the session is closed only when the scope is left without an exception
exit_scope_unless_raised(c, raised) ==
    IF raised THEN c ELSE [c EXCEPT !.session = "closed"]

\* __exit__, lines 568-570, and close, 560-562
exit_scope(c, raised) == [c EXCEPT !.session = "closed"]

\* main, lines 246-248: except DeHashedAPIError
ExitWithError(msg) ==
    [cli EXCEPT !.pc = "exited", !.exit = Num(1), !.stderr = <<"Error: ">> \o msg]

\* `with DeHashedClient(api_key=args.api_key) as client:` and the one operation
\* the command calls in it
Start(command, argv, op, args, endpoint, data) ==
    LET made == DeHashedClient(argv.api_key, cli.env)
    IN /\ IF made.ok
          THEN /\ client' = made.client
               /\ post(made.client, op, args, endpoint, data)
               /\ cli' = [cli EXCEPT !.pc = "in_call", !.command = command,
                                     !.argv = argv, !.scope = "inside"]
          ELSE /\ client' = made.client
               /\ cli' = [ExitWithError(made.msg) EXCEPT !.command = command, !.argv = argv]
               /\ UNCHANGED <<request, response, outcome, result, calls>>
       /\ UNCHANGED <<results, file, stdout, csvpc>>

\* --output: absent, empty, or a file name
Outputs ==
    {None, Text(<<>>), Text(<<"out", ".csv">>), Text(<<"out", ".json">>),
     Text(<<"out", ".csv", ".bak">>)}

\* --format: absent or one of its choices
Formats == {None, Scalar("json"), Scalar("csv")}

cmd_search ==
    /\ cli.pc = "start"
    /\ \E api_key \in Credentials, page \in {Num(1), Num(2)},
          wildcard \in {Bool(FALSE), Bool(TRUE)}, output \in Outputs, format \in Formats :
           LET argv == [api_key |-> api_key, query |-> Scalar("domain:example.com"),
                        page |-> page, size |-> Num(10000), wildcard |-> wildcard,
                        regex |-> Bool(FALSE), dedupe |-> Bool(FALSE),
                        output |-> output, format |-> format]
               args == [query |-> argv.query, page |-> argv.page, size |-> argv.size,
                        wildcard |-> argv.wildcard, regex |-> argv.regex,
                        de_dupe |-> argv.dedupe]
           IN Start("search", argv, "search", args, "/search", search_data(args))

cmd_search_password ==
    /\ cli.pc = "start"
    /\ \E api_key \in Credentials, output \in Outputs, format \in Formats :
           LET argv == [api_key |-> api_key,
                        hash |-> Scalar("5f4dcc3b5aa765d61d8327deb882cf99"),
                        output |-> output, format |-> format]
               args == [password_hash |-> argv.hash]
           IN Start("search-password", argv, "search_password", args,
                    "/search-password", [hash |-> args.password_hash])

\* text.split(','): the pieces between the commas, "" for an empty piece
RECURSIVE split(_)
split(tokens) ==
    LET commas == {i \in 1..Len(tokens) : tokens[i] = ","}
        piece(p) == IF p = <<>> THEN "" ELSE p[1]
    IN IF commas = {} THEN <<piece(tokens)>>
       ELSE LET i == CHOOSE c \in commas : \A d \in commas : c <= d
            IN <<piece(SubSeq(tokens, 1, i - 1))>>
               \o split(SubSeq(tokens, i + 1, Len(tokens)))

\* --channels: absent, empty, or a comma-separated text
ChannelOptions ==
    {None, Text(<<>>), Text(<<"email">>), Text(<<"email", ",", "webhook">>),
     Text(<<"email", ",">>)}

cmd_monitoring_create_task ==
    /\ cli.pc = "start"
    /\ \E api_key \in Credentials, channels \in ChannelOptions :
           LET argv == [api_key |-> api_key, type |-> Scalar("email"),
                        value |-> Scalar("monitor@example.com"), channels |-> channels]
               args == [task_type |-> argv.type, value |-> argv.value,
                        channels |-> IF Truthy(argv.channels)
                                     THEN List(split(argv.channels.v)) ELSE None]
           IN Start("monitoring create-task", argv, "monitoring_create_task", args,
                    "/monitoring/create-task", monitoring_create_task_data(args))

cmd_monitoring_get_tasks ==
    /\ cli.pc = "start"
    /\ \E api_key \in Credentials, page \in {Num(1), Num(2)}, output \in Outputs :
           LET argv == [api_key |-> api_key, page |-> page, output |-> output]
               args == [page |-> argv.page]
           IN Start("monitoring get-tasks", argv, "monitoring_get_tasks", args,
                    "/monitoring/get-tasks", [page |-> Bind(args.page, Num(1))])

cmd_monitoring_delete_task ==
    /\ cli.pc = "start"
    /\ \E api_key \in Credentials :
           LET argv == [api_key |-> api_key, task_id |-> Scalar("task-id-123")]
               args == [task_id |-> argv.task_id]
           IN Start("monitoring delete-task", argv, "monitoring_delete_task", args,
                    "/monitoring/delete-task", [id |-> args.task_id])

\* the choices of `whois type`, and one value outside them (cmd_whois called
\* with arguments the parser would refuse)
WhoisTypes == {"lookup", "history", "reverse", "ip", "mx", "ns", "subdomain"}

\* lines 97-114: the operation cmd_whois calls for a type
WhoisCall(type, argv) ==
    CASE type = "lookup" ->
            [op |-> "whois_search", args |-> [domain |-> argv.domain],
             data |-> [search_type |-> Scalar("whois"), domain |-> argv.domain]]
      [] type = "history" ->
            [op |-> "whois_history", args |-> [domain |-> argv.domain],
             data |-> [search_type |-> Scalar("whois-history"), domain |-> argv.domain]]
      [] type = "reverse" ->
            LET args == [name |-> argv.name, organization |-> argv.organization,
                         email |-> argv.email, include |-> Omitted, exclude |-> Omitted]
            IN [op |-> "whois_reverse", args |-> args, data |-> whois_reverse_data(args)]
      [] type = "ip" ->
            [op |-> "whois_ip", args |-> [ip_address |-> argv.domain],
             data |-> [search_type |-> Scalar("reverse-ip"), domain |-> argv.domain]]
      [] type = "mx" ->
            [op |-> "whois_mx", args |-> [mx_server |-> argv.domain],
             data |-> [search_type |-> Scalar("reverse-mx"), domain |-> argv.domain]]
      [] type = "ns" ->
            [op |-> "whois_ns", args |-> [ns_server |-> argv.domain],
             data |-> [search_type |-> Scalar("reverse-ns"), domain |-> argv.domain]]
      [] type = "subdomain" ->
            [op |-> "whois_subdomain_scan", args |-> [domain |-> argv.domain],
             data |-> [search_type |-> Scalar("subdomain-scan"), domain |-> argv.domain]]

cmd_whois ==
    /\ cli.pc = "start"
    /\ \E api_key \in Credentials, type \in WhoisTypes \cup {"other"},
          domain \in {None, Scalar("example.com")},
          name \in {None, Text(<<>>), Scalar("John Doe")},
          organization \in {None, Scalar("Example Corp")},
          email \in {None, Scalar("admin@example.com")},
          output \in {None, Text(<<"out", ".csv">>), Text(<<"out", ".json">>)} :
           LET argv == [api_key |-> api_key, type |-> type, domain |-> domain,
                        name |-> name, organization |-> organization, email |-> email,
                        output |-> output]
               made == DeHashedClient(argv.api_key, cli.env)
           IN IF type \in WhoisTypes \/ ~made.ok
              THEN LET call == WhoisCall(IF type \in WhoisTypes THEN type ELSE "lookup", argv)
                   IN Start("whois", argv, call.op, call.args, "/whois/search", call.data)
              ELSE \* lines 115-117: print and return from inside the scope
                   /\ client' = exit_scope(made.client, FALSE)
                   /\ cli' = [cli EXCEPT !.pc = "exited", !.command = "whois",
                                         !.argv = argv, !.scope = "left", !.exit = Num(0)]
                   /\ stdout' = stdout \o << <<"Unknown WHOIS type: ", type>> >>
                   /\ UNCHANGED <<request, response, outcome, result, calls,
                                  results, file, csvpc>>

cmd_balance ==
    /\ cli.pc = "start"
    /\ \E api_key \in Credentials :
           LET argv == [api_key |-> api_key]
               probe == [query |-> Scalar("email:test@test.com"), page |-> Omitted,
                         size |-> Num(1), wildcard |-> Omitted, regex |-> Omitted,
                         de_dupe |-> Omitted]
           IN Start("balance", argv, "get_balance", EmptyDict, "/search",
                    search_data(probe))

\* main, lines 240-242 and 249-251: no command, or `monitoring` without a
\* subcommand: the help is printed and the run ends before any client exists
main_print_help ==
    /\ cli.pc = "start"
    /\ cli' = [cli EXCEPT !.pc = "exited", !.exit = Num(1)]
    /\ UNCHANGED <<client, request, response, outcome, result, calls,
                   results, file, stdout, csvpc>>

\* text.endswith(suffix)
endswith(tokens, suffix) == tokens # <<>> /\ tokens[Len(tokens)] = suffix

\* mutant: the extension decides even when --format is given
output_format_by_extension(argv) ==
    IF endswith(argv.output.v, ".csv") THEN <<"csv">> ELSE <<"json">>

\* cmd_search lines 27-32, cmd_search_password lines 49-54
output_format(argv) ==
    IF Truthy(argv.format) THEN argv.format.v
    ELSE IF endswith(argv.output.v, ".csv") THEN <<"csv">> ELSE <<"json">>

\* the function a command hands its result to
Writer(command, argv) ==
    CASE command \in {"search", "search-password"} ->
            IF Truthy(argv.output)
            THEN IF output_format(argv) = <<"csv">>
                 THEN "save_results_to_csv" ELSE "save_results_to_file"
            ELSE "pretty_print_results"
      [] command \in {"monitoring get-tasks", "whois"} ->
            IF Truthy(argv.output) THEN "save_results_to_file"
            ELSE "pretty_print_results"
      [] command \in {"monitoring create-task", "monitoring delete-task"} ->
            "pretty_print_results"
      [] command = "balance" -> "print"

\* line 611, for a decoded body
BodyHasNoEntries(body) ==
    \/ body.kind # "object"
    \/ "entries" \notin DOMAIN body.fields
    \/ ~Truthy(body.fields.entries)

\* a 2xx answer with entries, besides the answers of Responses
CliResponses ==
    Responses
    \cup {[kind |-> "response", status |-> Status(200, "OK"),
           body |-> ObjectBody([entries |-> List(<<"entry">>), balance |-> Num(4)])]}

\* what the writer does with the value: the file it leaves, the lines it
\* prints, and whether open() raised (can_open is the file system's answer)
Written(writer, argv, value, can_open) ==
    CASE writer = "print" ->
            [raised |-> FALSE, file |-> file,
             lines |-> << <<"Account balance: ">> \o PyStr(value) \o <<" credits">> >>]
      [] writer = "pretty_print_results" ->
            [raised |-> FALSE, file |-> file,
             lines |-> << <<"json.dumps(", value.kind, ", indent=2)">> >>]
      [] writer = "save_results_to_csv" /\ BodyHasNoEntries(value) ->
            [raised |-> FALSE, file |-> file,
             lines |-> <<Str("No entries found in results to export to CSV")>>]
      [] OTHER ->
            IF can_open
            THEN [raised |-> FALSE,
                  file |-> [exists |-> TRUE, rows |-> <<>>, name |-> argv.output.v,
                            format |-> IF writer = "save_results_to_csv"
                                       THEN "csv" ELSE "json",
                            content |-> value],
                  lines |-> << <<"Results saved to ">> \o argv.output.v >>]
            ELSE [raised |-> TRUE, file |-> file, lines |-> <<>>]

\* the rest of the command once the operation has returned or raised, the
\* end of the `with` block, and main's handlers
Finish(made) ==
    LET delivered == Deliver(request.op, made)
    IN /\ outcome' = made
       /\ result' = delivered
       /\ request' = [op |-> "none"]
       /\ IF delivered.kind = "raised"
          THEN /\ client' = exit_scope(client, TRUE)
               /\ cli' = [ExitWithError(delivered.msg) EXCEPT !.scope = "left"]
               /\ UNCHANGED <<file, stdout>>
          ELSE \E can_open \in BOOLEAN :
                  LET writer == Writer(cli.command, cli.argv)
                      done == Written(writer, cli.argv, delivered.value, can_open)
                  IN /\ client' = exit_scope(client, done.raised)
                     /\ file' = done.file
                     /\ stdout' = stdout \o done.lines
                     /\ cli' = IF done.raised
                               THEN \* OSError: no handler in main, a traceback
                                    [cli EXCEPT !.pc = "exited", !.scope = "left",
                                                !.exit = Num(1), !.writer = writer,
                                                !.stderr = <<"Traceback: OSError">>]
                               ELSE [cli EXCEPT !.pc = "exited", !.scope = "left",
                                                !.exit = Num(0), !.writer = writer]
       /\ UNCHANGED <<calls, results, csvpc>>

\* session.post returned a response to the command's operation
cmd_response ==
    /\ cli.pc = "in_call"
    /\ \E r \in CliResponses :
          /\ response' = [kind |-> "response", status |-> r.status, body |-> r.body,
                          url |-> request.url]
          /\ Finish(HandleResponse(r, request.url))

\* session.post raised: no response was received
cmd_no_response ==
    /\ cli.pc = "in_call"
    /\ \E e \in NoResponses :
          /\ response' = [kind |-> "exception", exc |-> e.exc, text |-> e.text,
                          url |-> request.url]
          /\ Finish(HandleNoResponse(e))

\* Ctrl-C while the POST blocks: KeyboardInterrupt is no RequestException
\* and no Exception, so it leaves the scope and reaches main, lines 252-254
main_KeyboardInterrupt ==
    /\ cli.pc = "in_call"
    /\ client' = exit_scope(client, TRUE)
    /\ cli' = [cli EXCEPT !.pc = "exited", !.scope = "left", !.exit = Num(130)]
    /\ stdout' = stdout \o <<Str("\nAborted by user")>>
    /\ request' = [op |-> "none"]
    /\ response' = [kind |-> "exception", exc |-> "KeyboardInterrupt", text |-> <<>>,
                    url |-> request.url]
    /\ outcome' = [kind |-> "interrupted"]
    /\ result' = [kind |-> "interrupted"]
    /\ UNCHANGED <<calls, results, file, csvpc>>

InitCli ==
    /\ results = [entries |-> <<>>]
    /\ file = NoFile
    /\ stdout = <<>>
    /\ csvpc = "unused"
    /\ request = [op |-> "none"]
    /\ response = [kind |-> "none"]
    /\ outcome = [kind |-> "none"]
    /\ result = [kind |-> "none"]
    /\ calls = 0
    /\ client = [session |-> "none"]
    /\ \E env \in Credentials :
          cli = [pc |-> "start", env |-> env, command |-> "none",
                 argv |-> [api_key |-> None], scope |-> "outside", exit |-> None,
                 stderr |-> <<>>, writer |-> "none"]

NextCli ==
    \/ cmd_search
    \/ cmd_search_password
    \/ cmd_monitoring_create_task
    \/ cmd_monitoring_get_tasks
    \/ cmd_monitoring_delete_task
    \/ cmd_whois
    \/ cmd_balance
    \/ main_print_help
    \/ cmd_response
    \/ cmd_no_response
    \/ main_KeyboardInterrupt

SpecCli == InitCli /\ [][NextCli]_vars

(***************************************************************************)
(* Claims about the command line (checked under SpecCli).                  *)
(***************************************************************************)
Ran == cli.command # "none"

MissingCredentialText ==
    <<"API key must be provided or set in DEHASHED_API_KEY environment variable">>

\* C12: with no --api-key and no DEHASHED_API_KEY, constructing the client
\* fails with the configuration error, which main reports on stderr with exit
\* status 1; no client and no session exist, the scope is never entered and
\* no POST is sent at any point of the run.
C12_MissingCredentialFailsBeforeAnyCall ==
    (Ran /\ cli.argv.api_key = None /\ cli.env = None) =>
        /\ cli.pc = "exited"
        /\ cli.exit = Num(1)
        /\ cli.stderr = <<"Error: ">> \o MissingCredentialText
        /\ client.session = "none"
        /\ cli.scope = "outside"
        /\ calls = 0
        /\ Idle
        /\ response.kind = "none"

C12_Witness ==
    /\ cli.command = "whois"
    /\ cli.argv.api_key = None
    /\ cli.env = None
    /\ cli.pc = "exited"
    /\ cli.stderr # <<>>

\* C13 as stated: every constructed client holds a non-empty credential, and
\* no request is sent with an empty Dehashed-Api-Key header.
C13_CredentialNonEmpty ==
    /\ client.session # "none" => client.api_key # EmptyStr
    /\ ~Idle => request.api_key # EmptyStr

\* C15: the session exists and is open exactly while the run is inside the
\* `with` scope, the POST of the scope is sent on the open session, and the
\* session is closed in the very step that leaves the scope, whether the
\* command finished, returned early, or an exception went through.
C15_SessionReleasedOnExit ==
    /\ [](/\ cli.scope = "outside" <=> client.session = "none"
          /\ cli.scope = "inside" <=> client.session = "open"
          /\ cli.scope = "left" <=> client.session = "closed"
          /\ ~Idle => client.session = "open"
          /\ cli.pc = "exited" => client.session # "open")
    /\ [][/\ cli.scope = "inside" /\ cli'.scope # "inside"
             => cli'.scope = "left" /\ client'.session = "closed"
          /\ client.session = "open" /\ client'.session # "open"
             => cli.scope = "inside" /\ cli'.scope = "left"
          /\ client.session = "closed" => client'.session = "closed"]_vars

C15_Witness ==
    /\ cli.scope = "left"
    /\ result.kind = "raised"
    /\ client.session = "closed"
    /\ calls = 1

Savers == {"save_results_to_csv", "save_results_to_file"}

\* the format the stated rule selects for the arguments
RuleFormat(argv) ==
    IF "format" \in DOMAIN argv /\ Truthy(argv.format)
    THEN argv.format.v
    ELSE IF endswith(argv.output.v, ".csv") THEN <<"csv">> ELSE <<"json">>

RuleWriter(argv) ==
    IF RuleFormat(argv) = <<"csv">> THEN "save_results_to_csv" ELSE "save_results_to_file"

\* C16 as stated: every command that writes its result to a file writes it in
\* the explicit format, else in the one its file name's extension selects.
C16_FormatRuleForEveryCommand ==
    file.exists => <<file.format>> = RuleFormat(cli.argv)

\* C16, amended: search and search-password use the explicit format, else
\* `.csv` selects the tabular export and anything else JSON; monitoring
\* get-tasks and whois write JSON whatever the file is called; a file that
\* was written has the target's name and the selected format.
C16_FormatRuleForSearchCommands ==
    /\ cli.writer \in Savers =>
          /\ cli.command \in {"search", "search-password", "monitoring get-tasks", "whois"}
          /\ Truthy(cli.argv.output)
          /\ IF cli.command \in {"search", "search-password"}
             THEN cli.writer = RuleWriter(cli.argv)
             ELSE cli.writer = "save_results_to_file"
    /\ file.exists =>
          /\ cli.writer \in Savers
          /\ file.name = cli.argv.output.v
          /\ file.format = IF cli.writer = "save_results_to_csv" THEN "csv" ELSE "json"

C16_Witness ==
    /\ cli.command = "search"
    /\ cli.argv.format = Scalar("json")
    /\ cli.argv.output = Text(<<"out", ".csv">>)
    /\ file.exists
    /\ file.format = "json"

\* C17 as stated: no request sent by a command carries a payload field whose
\* value is null.
C17_NoNullPayloadValue ==
    ~Idle => \A k \in DOMAIN request.json : request.json[k].t # "none"

====
